---- MODULE Spec2Model ----
(***************************************************************************)
(* A model of rgl's filesystem synchronisation and build orchestration:    *)
(*   src/src/fs.rs            copy_dir, rimraf, sync_dir and its cache     *)
(*   src/src/file_watcher.rs  wait_changes, wait_debounced, flush          *)
(*   src/src/rgl/runner.rs    the four stages of one build cycle           *)
(*   src/src/commands/*.rs    the apply command and the watch loop         *)
(*                                                                         *)
(* The filesystem is a function from the paths that exist to their nodes.  *)
(* A path is a sequence of names.  Every std::fs call used by the code is  *)
(* an operator on an execution context `st` (filesystem, metadata cache,   *)
(* error flag, write counter, injected faults).                            *)
(***************************************************************************)
EXTENDS Integers, Sequences, FiniteSets, TLC

VARIABLES
    fs,        \* the filesystem: [existing paths -> node]
    cache,     \* METADATA_CACHE of sync_dir (fs.rs:232), process-wide
    clock,     \* the wall clock that stamps modified times
    keep,      \* TRUE where std::fs::copy carries the modified time over
    hist,      \* results of the sync_dir calls made so far (SpecSync)
    conf,      \* the watch command: packs of the project, flags, export kind
    pc,        \* position of the watch loop
    queue,     \* change signals in the watcher's channel
    locked,    \* the session lock is held
    declared,  \* export_data_names returned by the filter run
    res,       \* how the race of the current iteration ended
    after,     \* the previous cycle aborted in a sync_dir call
    staged,    \* the staged trees equalled their sources when setup ended
    edits,     \* source edits made by the user so far
    log,       \* the sync_dir calls (source, target) of the last runner stage
    timer,     \* deadline of the Timer armed by wait_debounced (SpecDebounce)
    sigs,      \* the times at which change signals were sent (SpecDebounce)
    procs,     \* two command invocations on one project root (SpecLock)
    holder,    \* the invocation that holds the session lock, 0 when free
    server,    \* the watch command was started with its reload channel (--ws)
    reloaded,  \* the race results after which the reload command was sent
    pending    \* the phases of the iteration in which the change signals were
               \* emitted that no staging has followed yet

fsVars == <<fs, cache, clock, keep>>

sideVars == <<timer, sigs, procs, holder>>

noteVars == <<server, reloaded, pending>>

----------------------------------------------------------------------------
(* Bounds *)

\* file sizes are 0..MaxLen
MaxLen == 1
\* initial modified times of target entries are 1..MaxT
MaxT == 2
\* number of consecutive sync_dir calls in SpecSync
MaxCalls == 2
\* the watcher's channel holds at most MaxQueue signals
MaxQueue == 2
\* the user edits the sources at most MaxEdits times
MaxEdits == 1
\* runner stages executed by one watch process
MaxStages == 7
\* the clock of SpecDebounce runs from 0 to MaxTime
MaxTime == 6
\* change signals sent during one wait_debounced call
MaxSignals == 3
\* the quiet window in clock ticks (Duration::from_millis(500), watch.rs:69)
Window == 2

----------------------------------------------------------------------------
(* Paths and nodes *)

IsPrefix(p, q) == Len(p) <= Len(q) /\ SubSeq(q, 1, Len(p)) = p

Parent(p) == SubSeq(p, 1, Len(p) - 1)

Last(p) == p[Len(p)]

EmptyFn == [x \in {} |-> 0]

FileNode(l, m) == [kind |-> "file", len |-> l, mtime |-> m, to |-> <<>>]

\* a directory's reported length does not depend on its entries
DirNode(m) == [kind |-> "dir", len |-> 0, mtime |-> m, to |-> <<>>]

LinkNode(t) == [kind |-> "link", len |-> 0, mtime |-> 0, to |-> t]

\* Option<fs::Metadata>::None
NoMeta == [kind |-> "none", len |-> 0, mtime |-> 0]

MetaOf(n) == [kind |-> n.kind, len |-> n.len, mtime |-> n.mtime]

\* Path::symlink_metadata / DirEntry::metadata: does not follow a link
LStat(f, p) == IF p \in DOMAIN f THEN MetaOf(f[p]) ELSE NoMeta

\* Path::metadata: follows a link at p
Stat(f, p) ==
    IF p \notin DOMAIN f THEN NoMeta
    ELSE IF f[p].kind = "link"
         THEN IF f[p].to \in DOMAIN f /\ f[f[p].to].kind # "link"
              THEN MetaOf(f[f[p].to]) ELSE NoMeta
         ELSE MetaOf(f[p])

\* the directory a path designates, through a link at p
Resolve(f, p) == IF p \in DOMAIN f /\ f[p].kind = "link" THEN f[p].to ELSE p

Put(f, p, n) == (p :> n) @@ f

Del(f, S) == [q \in DOMAIN f \ S |-> f[q]]

Under(f, p) == {q \in DOMAIN f : IsPrefix(p, q)}

\* names listed by fs::read_dir(p)
Names(f, p) ==
    LET d == Resolve(f, p)
    IN {Last(q) : q \in {r \in DOMAIN f : Len(r) = Len(d) + 1 /\ IsPrefix(d, r)}}

\* adding or removing an entry stamps the directory that holds it
TouchParent(f, p, t) ==
    IF Parent(p) \in DOMAIN f /\ f[Parent(p)].kind = "dir"
    THEN [f EXCEPT ![Parent(p)].mtime = t] ELSE f

----------------------------------------------------------------------------
(* Execution context of one filesystem operation *)

\* bad: paths whose fs::copy destination fails with an I/O error
\* skip: entries of a parallel traversal not yet started when it aborted
\* skipc: the same for the cleanup pass of sync_dir
\* deny: how the removal of a leaf fails, by path (none where absent)
\* tries: the removal attempts made on each leaf
\* cleared: the leaves whose read-only attribute was cleared
Ctx(f, c, t, k, bad, skip, skipc) ==
    [fs |-> f, cache |-> c, ok |-> TRUE, writes |-> 0, now |-> t, keep |-> k,
     bad |-> bad, skip |-> skip, skipc |-> skipc, valid |-> TRUE, calls |-> {},
     deny |-> EmptyFn, tries |-> EmptyFn, cleared |-> {}, err |-> "none"]

\* an operation returns Err: a low-level error, so far without a context
Fail(st) == [st EXCEPT !.ok = FALSE, !.err = "bare"]

\* anyhow's .with_context(..) on the result r of a call entered in st: an
\* error of the call gets a message naming the operation and its paths
with_context(st, r) == IF st.ok /\ ~r.ok THEN [r EXCEPT !.err = "ctx"] ELSE r

\* std::fs::create_dir_all
create_dir_all(st, p) ==
    IF ~st.ok THEN st
    ELSE LET missing == {i \in 1..Len(p) : Stat(st.fs, SubSeq(p, 1, i)).kind = "none"}
             blocked == \E i \in 1..Len(p) :
                           /\ SubSeq(p, 1, i) \in DOMAIN st.fs
                           /\ Stat(st.fs, SubSeq(p, 1, i)).kind # "dir"
             made == [q \in {SubSeq(p, 1, i) : i \in missing} |-> DirNode(st.now)]
         IN IF blocked THEN Fail(st)
            ELSE IF missing = {} THEN st
            ELSE [st EXCEPT !.fs = TouchParent(made @@ st.fs,
                                       SubSeq(p, 1, CHOOSE i \in missing :
                                                  \A j \in missing : i <= j), st.now),
                            !.writes = @ + 1]

\* std::fs::copy: contents and permissions; the modified time of the
\* destination is the source's only where the platform carries it over
fs_copy(st, from, to) ==
    IF ~st.ok THEN st
    ELSE IF \/ Stat(st.fs, from).kind # "file"
            \/ Stat(st.fs, Parent(to)).kind # "dir"
            \/ Stat(st.fs, to).kind = "dir"
            \/ to \in st.bad
         THEN Fail(st)
    ELSE LET src == Stat(st.fs, from)
             dst == Resolve(st.fs, to)
             f1 == Put(st.fs, dst,
                       FileNode(src.len, IF st.keep THEN src.mtime ELSE st.now))
         IN [st EXCEPT !.fs = IF dst \in DOMAIN st.fs THEN f1
                               ELSE TouchParent(f1, dst, st.now),
                       !.writes = @ + 1]

\* std::fs::remove_file: unlinks a file or a link, never a directory
remove_file(st, p) ==
    IF ~st.ok THEN st
    ELSE IF LStat(st.fs, p).kind \notin {"file", "link"} THEN Fail(st)
    ELSE [st EXCEPT !.fs = TouchParent(Del(st.fs, {p}), p, st.now),
                    !.writes = @ + 1]

\* std::fs::remove_dir: removes an empty directory
remove_dir(st, p) ==
    IF ~st.ok THEN st
    ELSE IF LStat(st.fs, p).kind # "dir" \/ Under(st.fs, p) # {p} THEN Fail(st)
    ELSE [st EXCEPT !.fs = TouchParent(Del(st.fs, {p}), p, st.now),
                    !.writes = @ + 1]

\* the closure of par_bridge().try_for_each ran on entry e: its own result
\* is e's, the traversal fails when any entry's closure failed, with the
\* error of the closure that failed first
Join(st, r) == [r EXCEPT !.ok = st.ok /\ r.ok,
                         !.err = IF st.ok THEN r.err ELSE st.err]

Fresh(st) == [st EXCEPT !.ok = TRUE, !.err = "none"]

\* an entry may be left unstarted only by a traversal that aborted
Traversed(st, r, skipped) ==
    [r EXCEPT !.ok = st.ok /\ r.ok,
              !.valid = r.valid /\ (skipped = {} \/ ~r.ok)]

\* fs::read_dir(p)? fails unless p designates a directory
CanReadDir(st, p) == Stat(st.fs, p).kind = "dir"

\* entries of `names` under p that the aborted traversal never started
Unstarted(st, p, names) == {n \in names : Append(p, n) \in st.skip}

----------------------------------------------------------------------------
(* rimraf, fs.rs:82-143 *)

\* the ways the environment fails the removal of a leaf:
\*   "io"      the first attempt fails with an error other than
\*             PermissionDenied
\*   "perm"    the first attempt fails with PermissionDenied
\*   "chmod"   the same, and fs::set_permissions fails too
\*   "again"   the same, and the second attempt fails as well
DenyKinds == {"io", "perm", "chmod", "again"}

Denied(st, p) == IF p \in DOMAIN st.deny THEN st.deny[p] ELSE "none"

\* fs.rs:89 and 94: one call of rm(&path)
Tried(st, p) ==
    [st EXCEPT !.tries = (p :> (IF p \in DOMAIN st.tries THEN st.tries[p] ELSE 0) + 1)
                         @@ st.tries]

\* fs.rs:92-93: perm.set_readonly(false); fs::set_permissions(path, perm)?
set_writable(st, p) ==
    IF Denied(st, p) = "chmod" THEN Fail(st)
    ELSE [st EXCEPT !.cleared = @ \cup {p}]

\* fs.rs:94: the second rm(&path)?
remove_again(st, p) ==
    IF ~st.ok THEN st
    ELSE IF Denied(st, p) = "again" THEN Fail(Tried(st, p))
    ELSE remove_file(Tried(st, p), p)

\* a removal that gives up at the first failure, whatever its kind
remove_entry_once(st, p) ==
    IF ~st.ok THEN st
    ELSE IF Denied(st, p) # "none" THEN Fail(Tried(st, p))
    ELSE remove_file(Tried(st, p), p)

\* fs.rs:83-101: unlink a leaf (a file or a link)
remove_entry(st, p) ==
    IF ~st.ok THEN st
    ELSE IF Denied(st, p) = "none" THEN remove_file(Tried(st, p), p)
    ELSE IF Denied(st, p) = "io" THEN Fail(Tried(st, p))
    ELSE remove_again(set_writable(Tried(st, p), p), p)

RECURSIVE rimraf_impl(_, _), rimraf_entries(_, _, _)

\* fs.rs:106-115: the closure run on every entry of the directory
rimraf_entries(st, p, names) ==
    IF names = {} THEN st
    ELSE LET n == CHOOSE x \in names : TRUE
             e == Append(p, n)
             r == IF e \in st.skip THEN st
                  ELSE IF LStat(st.fs, e).kind = "dir"
                       THEN Join(st, rimraf_impl(Fresh(st), e))
                       ELSE Join(st, remove_entry(Fresh(st), e))
         IN rimraf_entries(r, p, names \ {n})

\* fs.rs:103-118
rimraf_impl(st, p) ==
    IF ~st.ok THEN st
    ELSE IF ~CanReadDir(st, p) THEN Fail(st)
    ELSE LET names == Names(st.fs, p)
             r == rimraf_entries(st, p, names)
         IN remove_dir(Traversed(st, r, Unstarted(st, p, names)), p)

\* a removal that resolves a link at p and removes what it designates
rimraf_following(st, p) ==
    IF ~st.ok THEN st
    ELSE LET t == Resolve(st.fs, p)
             m == LStat(st.fs, t)
         IN IF m.kind = "none" THEN st
            ELSE IF m.kind = "dir" THEN with_context(st, rimraf_impl(st, t))
            ELSE with_context(st, remove_entry(st, t))

\* fs.rs:120-142
rimraf(st, p) ==
    IF ~st.ok THEN st
    ELSE LET m == LStat(st.fs, p)
         IN IF m.kind = "none" THEN st
            ELSE IF m.kind = "dir" THEN with_context(st, rimraf_impl(st, p))
            ELSE with_context(st, remove_entry(st, p))

----------------------------------------------------------------------------
(* copy_dir, fs.rs:13-42 *)

RECURSIVE copy_dir_impl(_, _, _), copy_entries(_, _, _, _)

\* fs.rs:17-27
copy_entries(st, from, to, names) ==
    IF names = {} THEN st
    ELSE LET n == CHOOSE x \in names : TRUE
             path == Append(from, n)
             dest == Append(to, n)
             r == IF dest \in st.skip THEN st
                  ELSE IF Stat(st.fs, path).kind = "dir"
                       THEN Join(st, copy_dir_impl(Fresh(st), path, dest))
                       ELSE Join(st, fs_copy(Fresh(st), path, dest))
         IN copy_entries(r, from, to, names \ {n})

\* fs.rs:13-28
copy_dir_impl(st, from, to) ==
    IF ~st.ok THEN st
    ELSE LET s1 == create_dir_all(st, to)
         IN IF ~s1.ok THEN s1
            ELSE IF ~CanReadDir(s1, from) THEN Fail(s1)
            ELSE LET names == Names(s1.fs, from)
                 IN Traversed(s1, copy_entries(s1, from, to, names),
                              Unstarted(s1, to, names))

\* a failed copy undone: the destination removed with all it holds
Undone(st, r, to) ==
    IF st.ok /\ ~r.ok
    THEN [rimraf(Fresh(r), to) EXCEPT !.ok = FALSE, !.err = "ctx"] ELSE r

\* a copy_dir that rolls its destination back when an entry fails
copy_dir_rollback(st, from, to) == Undone(st, copy_dir_impl(st, from, to), to)

\* fs.rs:30-42
copy_dir(st, from, to) == with_context(st, copy_dir_impl(st, from, to))

----------------------------------------------------------------------------
(* sync_dir, fs.rs:231-327 *)

\* fs.rs:235-245: the value returned
get_metadata(st, p) ==
    IF p \in DOMAIN st.cache THEN st.cache[p] ELSE Stat(st.fs, p)

\* fs.rs:242-243: the entry a miss leaves in the cache
Cached(st, p) ==
    IF p \in DOMAIN st.cache THEN st
    ELSE [st EXCEPT !.cache = (p :> Stat(st.fs, p)) @@ @]

\* fs.rs:248-253; both paths are looked up, so both are cached
compare_files(st, a, b) ==
    LET ma == get_metadata(st, a)
        mb == get_metadata(Cached(st, a), b)
    IN ma.kind # "none" /\ mb.kind # "none"
       /\ ma.len = mb.len /\ ma.mtime = mb.mtime

RECURSIVE sync(_, _, _), sync_entries(_, _, _, _), sync_entry(_, _, _)

\* fs.rs:261-278: the closure run on one entry of source
sync_entry(st, source, target) ==
    LET ms == get_metadata(st, source)
        s1 == Cached(st, source)
    IN IF ms.kind = "dir"
       THEN LET mt == get_metadata(s1, target)
                s2 == Cached(s1, target)
                s3 == IF mt.kind = "file" THEN remove_file(s2, target) ELSE s2
            IN sync(s3, source, target)
       ELSE LET mt == get_metadata(s1, target)
                s2 == Cached(s1, target)
                s3 == IF mt.kind = "dir" THEN rimraf(s2, target) ELSE s2
            IN IF ~s3.ok THEN s3
               ELSE IF compare_files(s3, source, target) THEN s3
               ELSE fs_copy(s3, source, target)

sync_entries(st, source, target, names) ==
    IF names = {} THEN st
    ELSE LET n == CHOOSE x \in names : TRUE
             r == IF Append(target, n) \in st.skip THEN st
                  ELSE Join(st, sync_entry(Fresh(st), Append(source, n),
                                           Append(target, n)))
         IN sync_entries(r, source, target, names \ {n})

\* fs.rs:255-279
sync(st, source, target) ==
    IF ~st.ok THEN st
    ELSE LET mt == get_metadata(st, target)
             s1 == Cached(st, target)
             s2 == IF mt.kind = "none" THEN create_dir_all(s1, target) ELSE s1
         IN IF ~s2.ok THEN s2
            ELSE IF ~CanReadDir(s2, source) THEN Fail(s2)
            ELSE LET names == Names(s2.fs, source)
                 IN Traversed(s2, sync_entries(s2, source, target, names),
                              Unstarted(s2, target, names))

RECURSIVE cleanup(_, _, _), cleanup_entries(_, _, _, _)

\* fs.rs:285-306: the closure run on one entry of target
cleanup_entry(st, source, target) ==
    LET is_dir == get_metadata(st, target).kind = "dir"
        s1 == Cached(st, target)
        ms == get_metadata(s1, source)
        s2 == Cached(s1, source)
    IN IF ms.kind = "none"
       THEN IF is_dir THEN rimraf(s2, target)
            ELSE with_context(s2, remove_file(s2, target))
       ELSE IF is_dir THEN cleanup(s2, source, target) ELSE s2

cleanup_entries(st, source, target, names) ==
    IF names = {} THEN st
    ELSE LET n == CHOOSE x \in names : TRUE
             r == IF Append(target, n) \in st.skipc THEN st
                  ELSE Join(st, cleanup_entry(Fresh(st), Append(source, n),
                                              Append(target, n)))
         IN cleanup_entries(r, source, target, names \ {n})

\* fs.rs:282-307
cleanup(st, source, target) ==
    IF ~st.ok THEN st
    ELSE IF ~CanReadDir(st, target) THEN Fail(st)
    ELSE LET names == Names(st.fs, target)
             r == cleanup_entries(st, source, target, names)
         IN Traversed(st, r, {n \in names : Append(target, n) \in st.skipc})

\* fs.rs:325: reached only when no `?` returned early
cache_clear(st) == IF st.ok THEN [st EXCEPT !.cache = EmptyFn] ELSE st

\* fs.rs:309-327
sync_dir(st, source, target) ==
    IF ~st.ok THEN st
    ELSE LET mt == get_metadata(st, target)
             s1 == [Cached(st, target) EXCEPT !.calls = @ \cup {<<source, target>>}]
         IN IF mt.kind = "dir"
            THEN cache_clear(cleanup(with_context(s1, sync(s1, source, target)),
                                     source, target))
            ELSE cache_clear(copy_dir(s1, source, target))

----------------------------------------------------------------------------
(* SpecSync: consecutive top-level sync_dir(A, B) calls of one process *)

SrcRoot == <<"A">>

DstRoot == <<"B">>

\* the modified time of every source entry; 1..MaxT holds it
SrcT == 1

\* a tree given by relative paths, placed under root
Graft(root, t) ==
    [q \in {root \o r : r \in DOMAIN t} |-> t[SubSeq(q, Len(root) + 1, Len(q))]]

\* the entry p: absent, a file, or a directory holding at most the entry x
TreesP(lens, times) ==
    {EmptyFn}
    \cup {(<<"p">> :> FileNode(l, m)) : l \in lens, m \in times}
    \cup {(<<"p">> :> DirNode(m)) : m \in times}
    \cup {(<<"p">> :> DirNode(m)) @@ (<<"p", "x">> :> FileNode(l, m2)) :
             m \in times, l \in lens, m2 \in times}
    \cup {(<<"p">> :> DirNode(m)) @@ (<<"p", "x">> :> DirNode(m2)) :
             m \in times, m2 \in times}

\* the entry q: absent or a file
TreesQ(lens, times) ==
    {EmptyFn} \cup {(<<"q">> :> FileNode(l, m)) : l \in lens, m \in times}

\* a directory at root holding p and q
Trees(root, lens, times) ==
    {(root :> DirNode(SrcT)) @@ Graft(root, tp @@ tq) :
        tp \in TreesP(lens, times), tq \in TreesQ(lens, times)}

SrcTrees == Trees(SrcRoot, 0..MaxLen, {SrcT})

\* B is absent, a regular file, or a directory
DstTrees ==
    {EmptyFn} \cup {(DstRoot :> FileNode(0, 1))}
    \cup Trees(DstRoot, 0..MaxLen, 1..MaxT)

RelPaths == {<<"p">>, <<"p", "x">>, <<"q">>}

DstPaths == {DstRoot \o r : r \in RelPaths}

\* a directory of this universe holds at most two entries, so at most one
\* of them is unstarted when the closure of the other fails
SkipChoices == {{}} \cup {{t} : t \in DstPaths}

FaultChoices == {{}} \cup {{t} : t \in DstPaths}

watchVars == <<conf, pc, queue, locked, declared, res, after, staged, edits, log>>

NoConf == [bp |-> FALSE, rp |-> FALSE, compat |-> FALSE, clean |-> FALSE,
           none |-> FALSE]

\* the watch loop is not part of this specification
WatchIdle ==
    /\ conf = NoConf
    /\ pc = "idle"
    /\ queue = 0
    /\ locked = FALSE
    /\ declared = {}
    /\ res = "none"
    /\ after = FALSE
    /\ staged = FALSE
    /\ edits = 0
    /\ log = {}

\* the timed wait and the second invocation are not part of a specification
SideIdle ==
    /\ timer = 0
    /\ sigs = <<>>
    /\ procs = <<>>
    /\ holder = 0

\* no reload channel, nothing sent, no change signal yet
NoteIdle ==
    /\ server = FALSE
    /\ reloaded = {}
    /\ pending = {}

InitSync ==
    /\ \E a \in SrcTrees, b \in DstTrees : fs = a @@ b
    /\ cache = EmptyFn
    /\ clock = MaxT + 1
    /\ keep \in BOOLEAN
    /\ hist = <<>>
    /\ WatchIdle
    /\ SideIdle
    /\ NoteIdle

\* what a call that returned r leaves behind
Returned(r) ==
    /\ r.valid
    /\ fs' = r.fs
    /\ cache' = r.cache
    /\ hist' = Append(hist, [ok |-> r.ok, writes |-> r.writes])

\* one top-level call, with the faults the environment injects into it
SyncDirCall ==
    /\ Len(hist) < MaxCalls
    /\ \E bad \in FaultChoices, skip \in SkipChoices, skipc \in SkipChoices :
          Returned(sync_dir(Ctx(fs, cache, clock, keep, bad, skip, skipc),
                            SrcRoot, DstRoot))
    /\ clock' = clock + 1
    /\ UNCHANGED <<keep, watchVars, sideVars, noteVars>>

NextSync == SyncDirCall

vars == <<fs, cache, clock, keep, hist, watchVars, sideVars, noteVars>>

SpecSync == InitSync /\ [][NextSync]_vars

----------------------------------------------------------------------------
(* Claims about sync_dir, verified under SpecSync *)

LastOk == hist # <<>> /\ hist[Len(hist)].ok

IsFileAt(f, p) == p \in DOMAIN f /\ f[p].kind = "file"

\* every file of A is in B with the same size and modified time
SameFiles(f, a, b) ==
    \A r \in RelPaths :
        IsFileAt(f, a \o r) =>
            /\ IsFileAt(f, b \o r)
            /\ f[b \o r].len = f[a \o r].len
            /\ f[b \o r].mtime = f[a \o r].mtime

\* B holds no entry, at any depth, that A lacks
NoExtra(f, a, b) ==
    \A r \in RelPaths : (b \o r) \in DOMAIN f => (a \o r) \in DOMAIN f

\* C1: after sync_dir(A, B) returns success, every file of A has a file at
\* the same relative path in B with the same size and the same modified
\* time, and B holds no file or directory whose relative path A lacks.
C1_Convergence ==
    LastOk => SameFiles(fs, SrcRoot, DstRoot) /\ NoExtra(fs, SrcRoot, DstRoot)

\* C2: when a sync_dir(A, B) call succeeded and A and B were left alone,
\* the next call performs zero writes (no copy, removal or creation).
C2_Idempotence ==
    \A i \in 2..Len(hist) : hist[i - 1].ok => hist[i].writes = 0

\* C3: the metadata cache is empty whenever a top-level sync_dir call
\* begins and whenever one returns, calls that return an error included.
C3_CacheEmptyBetweenCalls == DOMAIN cache = {}

----------------------------------------------------------------------------
(* The runner, rgl/runner.rs:7-96 *)

\* config.get_behavior_pack(), get_resource_pack(), get_data_path()
BP == <<"bp">>

RP == <<"rp">>

DATA == <<"data">>

\* Temp::from_dot_regolith(): the temp root and its bp, rp, data entries
TEMP == <<"tmp">>

TEMP_BP == <<"tmp", "bp">>

TEMP_RP == <<"tmp", "rp">>

TEMP_DATA == <<"tmp", "data">>

\* profile.export.get_paths(..): the resolved export targets
TARGET_BP == <<"out_bp">>

TARGET_RP == <<"out_rp">>

\* Path::is_symlink
is_symlink(st, p) == LStat(st.fs, p).kind = "link"

\* fs.rs:166-196 (unix): canonicalize(from)? then symlink(2)
symlink(st, from, to) ==
    IF ~st.ok THEN st
    ELSE IF \/ Stat(st.fs, from).kind = "none"
            \/ to \in DOMAIN st.fs
            \/ Stat(st.fs, Parent(to)).kind # "dir"
            \/ to \in st.bad
         THEN Fail(st)
    ELSE [st EXCEPT !.fs = TouchParent(Put(st.fs, to, LinkNode(Resolve(st.fs, from))),
                                       to, st.now),
                    !.writes = @ + 1]

\* runner.rs:22-26
setup_clean(st, c) ==
    IF ~c.clean THEN st
    ELSE rimraf(rimraf(rimraf(st, TEMP), TARGET_BP), TARGET_RP)

\* runner.rs:30-38, 49-51: `if temp.x.is_symlink() { rimraf(&temp.x)?; }`
unlink_temp(st, p) == IF st.ok /\ is_symlink(st, p) THEN rimraf(st, p) ELSE st

\* runner.rs:39-44, 80-91: `if let Some(pack) = .. { sync_dir(..)?; }`
sync_pack(st, has, source, target) ==
    IF has THEN sync_dir(st, source, target) ELSE st

\* runner.rs:52-59: sync_dir to the target, then the link to it
link_pack(st, has, source, target, temp) ==
    IF has THEN symlink(sync_dir(st, source, target), target, temp) ELSE st

\* runner.rs:30-45: private copies of the packs in the temp workspace
stage_compat(st, c) ==
    sync_dir(
        sync_pack(
            sync_pack(
                unlink_temp(unlink_temp(unlink_temp(st, TEMP_BP), TEMP_RP), TEMP_DATA),
                c.bp, BP, TEMP_BP),
            c.rp, RP, TEMP_RP),
        DATA, TEMP_DATA)

\* runner.rs:47-60: the packs go to the export targets, the temp entries
\* become links to them
stage_direct(st, c) ==
    sync_dir(
        link_pack(
            link_pack(
                unlink_temp(rimraf(rimraf(st, TEMP_BP), TEMP_RP), TEMP_DATA),
                c.bp, BP, TARGET_BP, TEMP_BP),
            c.rp, RP, TARGET_RP, TEMP_RP),
        DATA, TEMP_DATA)

\* runner.rs:29-61: the staging mode
stage(st, c) ==
    IF c.compat \/ c.none THEN stage_compat(st, c) ELSE stage_direct(st, c)

\* runner.rs:21-62, the stage "Setup temp"
setup_temp(st, c) ==
    stage(create_dir_all(create_dir_all(setup_clean(st, c), DATA), TEMP), c)

RECURSIVE export_data(_, _)

\* runner.rs:68-74: the data folders the filters declared
export_data(st, names) ==
    IF names = {} THEN st
    ELSE LET n == CHOOSE x \in names : TRUE
             filter_data == Append(TEMP_DATA, n)
             s1 == IF st.ok /\ Stat(st.fs, filter_data).kind = "dir"
                   THEN sync_dir(st, filter_data, Append(DATA, n)) ELSE st
         IN export_data(s1, names \ {n})

\* the export flag without the test of the export strategy
ExportWhenCompat(c) == c.compat

\* runner.rs:79
ExportWanted(c) == c.compat /\ ~c.none

\* runner.rs:77-92, the stage "Export project"
export_project(st, c) ==
    sync_pack(sync_pack(st, c.bp /\ ExportWanted(c), TEMP_BP, TARGET_BP),
              c.rp /\ ExportWanted(c), TEMP_RP, TARGET_RP)

----------------------------------------------------------------------------
(* SpecWatch: one `rgl watch` process, commands/watch.rs:24-75 *)

\* relative paths of the entries under a
RelUnder(f, a) == {SubSeq(q, Len(a) + 1, Len(q)) : q \in Under(f, a) \ {a}}

\* a and b are directories holding the same entries, files of the same size
TreeEq(f, a, b) ==
    /\ Stat(f, a).kind = "dir" /\ Stat(f, b).kind = "dir"
    /\ RelUnder(f, Resolve(f, a)) = RelUnder(f, Resolve(f, b))
    /\ \A r \in RelUnder(f, Resolve(f, a)) :
          /\ f[Resolve(f, a) \o r].kind = f[Resolve(f, b) \o r].kind
          /\ f[Resolve(f, a) \o r].len = f[Resolve(f, b) \o r].len

\* the project's packs: the entry p as in TreesP
PackTrees(root) ==
    {(root :> DirNode(SrcT)) @@ Graft(root, tp) : tp \in TreesP({MaxLen}, {SrcT})}

\* the data directory holds the folder of the installed filter n
DataTree == (DATA :> DirNode(SrcT)) @@ (<<"data", "n">> :> DirNode(SrcT))

\* what an earlier direct-mode run left: the temp bp entry links to the target
LeftByDirect ==
    (TEMP :> DirNode(SrcT)) @@ (TEMP_BP :> LinkNode(TARGET_BP))
    @@ (TARGET_BP :> DirNode(SrcT)) @@ (<<"out_bp", "p">> :> FileNode(MaxLen, SrcT))

Direct(c) == ~(c.compat \/ c.none)

Confs == [bp : BOOLEAN, rp : BOOLEAN, compat : BOOLEAN, clean : BOOLEAN,
          none : BOOLEAN]

\* the project of a watch process that starts under configuration c
Project(c, b, prior) ==
    (IF c.bp THEN b ELSE EmptyFn)
    @@ (IF c.rp THEN (RP :> DirNode(SrcT)) @@ (<<"rp", "p">> :> FileNode(MaxLen, SrcT))
        ELSE EmptyFn)
    @@ DataTree @@ (IF c.none THEN EmptyFn ELSE prior)

LoopStart ==
    /\ cache = EmptyFn
    /\ clock = MaxT + 1
    /\ hist = <<>>
    /\ pc = "load"
    /\ queue = 0
    /\ locked = FALSE
    /\ declared = {}
    /\ res = "none"
    /\ after = FALSE
    /\ staged = FALSE
    /\ edits = 0
    /\ log = {}
    /\ SideIdle

\* any flags, no pack or bp or both, any bp, with or without what a
\* direct-mode run left
InitRunner ==
    /\ conf \in {c \in Confs : c.rp => c.bp}
    /\ \E b \in PackTrees(BP), prior \in {EmptyFn, LeftByDirect} :
          fs = Project(conf, b, prior)
    /\ keep \in BOOLEAN
    /\ LoopStart
    /\ NoteIdle

\* a project with a behavior pack and an export target, in either mode,
\* watched with or without the reload channel (watch.rs:27-33)
InitWatch ==
    /\ conf \in {c \in Confs : c.bp /\ ~c.rp /\ ~c.clean /\ ~c.none}
    /\ fs = Project(conf, (BP :> DirNode(SrcT)) @@ (<<"bp", "p">> :> FileNode(MaxLen, SrcT)),
                    EmptyFn)
    /\ keep \in BOOLEAN
    /\ LoopStart
    /\ server \in BOOLEAN
    /\ reloaded = {}
    /\ pending = {}

\* where the staged copy of a pack is: the temp entry, or the export target
StagedAt(c, temp, target) == IF Direct(c) THEN target ELSE temp

StagedEq(f, c) ==
    /\ c.bp => TreeEq(f, BP, StagedAt(c, TEMP_BP, TARGET_BP))
    /\ c.rp => TreeEq(f, RP, StagedAt(c, TEMP_RP, TARGET_RP))
    /\ TreeEq(f, DATA, TEMP_DATA)

ExportedEq(f, c, ns) ==
    /\ (c.bp /\ ExportWanted(c)) => TreeEq(f, TEMP_BP, TARGET_BP)
    /\ (c.rp /\ ExportWanted(c)) => TreeEq(f, TEMP_RP, TARGET_RP)
    /\ \A n \in ns : Stat(f, Append(TEMP_DATA, n)).kind = "dir" =>
                        TreeEq(f, Append(TEMP_DATA, n), Append(DATA, n))

\* destinations whose fs::copy or symlink the environment may fail
WatchFaults ==
    {{}} \cup {{t} : t \in {<<"tmp", "bp", "p">>, <<"out_bp", "p">>,
                            <<"data", "n", "y">>, <<"tmp", "data", "n">>}}

StageCtx(bad) == Ctx(fs, cache, clock, keep, bad, {}, {})

\* a runner error propagated with `?` would end the loop
OnRunnerErrorExit == "exit"

\* watch.rs:43-47: a runner error is logged and the race yields `false`
OnRunnerError == "flush"

\* the effects of a stage, and where the loop goes when it failed
StageDone(r, next) ==
    /\ r.valid
    /\ fs' = r.fs
    /\ cache' = r.cache
    /\ clock' = clock + 1
    /\ pc' = IF r.ok THEN next ELSE OnRunnerError
    /\ res' = IF r.ok THEN (IF next = "flush" THEN "ok" ELSE res) ELSE "err"
    /\ after' = IF r.ok THEN after ELSE DOMAIN r.cache # {}
    /\ log' = r.calls

StageBudget == clock < MaxT + 1 + MaxStages

\* watch.rs:37-39: Config::load, get_watcher, Session::lock; the watcher of
\* an iteration is a new one (FileWatcher::new, file_watcher.rs:12-29), so
\* its channel starts empty
Load ==
    /\ pc = "load"
    /\ pc' = IF locked THEN "exit" ELSE "setup"
    /\ locked' = TRUE
    /\ res' = "none"
    /\ queue' = 0
    /\ after' = (after /\ res = "err")
    /\ UNCHANGED <<fsVars, hist, conf, declared, staged, edits, log, sideVars, noteVars>>

\* the setup stage returned r
SetupDone(r) ==
    /\ StageDone(r, "yield")
    /\ staged' = (r.ok /\ StagedEq(r.fs, conf))

\* runner.rs:21-62, first poll of the runner future
Setup ==
    /\ pc = "setup" /\ StageBudget
    /\ \E bad \in WatchFaults : SetupDone(setup_temp(StageCtx(bad), conf))
    /\ pending' = {}
    /\ UNCHANGED <<keep, hist, conf, queue, locked, declared, edits, sideVars,
                   server, reloaded>>

\* an interrupted iteration going on to the flush and the timed wait
OnInterruptFlush == "flush"

\* watch.rs:56-70: with is_interrupted, the block of the reload, the flush
\* and wait_debounced is skipped
OnInterrupt == "unlock"

\* a runner that goes from staging to the filter run with no poll of
\* wait_changes in between
YieldThrough ==
    /\ pc = "yield"
    /\ pc' = "filter"
    /\ UNCHANGED <<fsVars, hist, conf, queue, locked, declared, res, after, staged, edits,
                   log, sideVars, noteVars>>

\* runner.rs:63 and watch.rs:49-52: the runner is suspended at yield_now
\* and wait_changes is polled
Yield ==
    /\ pc = "yield"
    /\ IF queue > 0
       THEN queue' = queue - 1 /\ res' = "int" /\ pc' = OnInterrupt
       ELSE pc' = "filter" /\ UNCHANGED <<queue, res>>
    /\ UNCHANGED <<fsVars, hist, conf, locked, declared, after, staged, edits, log, sideVars, noteVars>>

\* what a filter run leaves: a generated file in the staged bp, files in
\* its data folder n, files in a folder u it does not declare
FilterOutcomes ==
    {[gen |-> FALSE, data |-> {}, declared |-> {}],
     [gen |-> TRUE, data |-> {<<"n", "x">>, <<"n", "y">>}, declared |-> {"n"}],
     [gen |-> FALSE, data |-> {<<"u", "x">>, <<"n", "x">>}, declared |-> {"n", "m"}]}

RECURSIVE FilterWrite(_, _)

FilterWrite(st, paths) ==
    IF paths = {} THEN st
    ELSE LET q == CHOOSE x \in paths : TRUE
             s1 == create_dir_all(st, Parent(q))
             s2 == IF s1.ok /\ Stat(s1.fs, q).kind # "dir"
                   THEN [s1 EXCEPT !.fs = TouchParent(
                                       Put(s1.fs, q, FileNode(MaxLen, s1.now)), q, s1.now)]
                   ELSE s1
         IN FilterWrite(s2, paths \ {q})

\* runner.rs:67: profile.run(config, &temp.root, profile_name).await
FilterRun(st, c, o) ==
    FilterWrite(st, {TEMP_DATA \o d : d \in o.data}
                    \cup (IF o.gen /\ c.bp /\ Stat(st.fs, TEMP_BP).kind = "dir"
                          THEN {Append(Resolve(st.fs, TEMP_BP), "g")} ELSE {}))

\* the filter pipeline completed
FilterDone ==
    /\ pc = "filter" /\ StageBudget
    /\ \E o \in FilterOutcomes :
          /\ StageDone(FilterRun(StageCtx({}), conf, o), "exportData")
          /\ declared' = o.declared
    /\ UNCHANGED <<keep, hist, conf, queue, locked, staged, edits, sideVars, noteVars>>

\* the filter pipeline failed: `?` at runner.rs:67
FilterFail ==
    /\ pc = "filter" /\ StageBudget
    /\ StageDone(Fail(StageCtx({})), "exportData")
    /\ UNCHANGED <<keep, hist, conf, queue, locked, declared, staged, edits, sideVars, noteVars>>

\* a runner that could be dropped inside its export stages as well
AwaitingAnywhere == {"filter", "exportData", "exportProject"}

\* runner.rs:67: past the yield, the runner future is suspended, and
\* wait_changes polled, only at `profile.run(..).await`; every sync_dir,
\* rimraf and symlink call of the runner is a plain blocking call
Awaiting == {"filter"}

\* watch.rs:49-52: a change signal wins the race while the runner awaits
\* the filter pipeline; the runner future is dropped
Abandon ==
    /\ pc \in Awaiting /\ queue > 0
    /\ queue' = queue - 1
    /\ res' = "int"
    /\ pc' = OnInterrupt
    /\ UNCHANGED <<fsVars, hist, conf, locked, declared, after, staged, edits, log, sideVars, noteVars>>

\* every folder found under the temp data root
AllDataFolders(f, ns) == Names(f, TEMP_DATA)

\* runner.rs:67-68: the loop runs over the names profile.run returned
ExportNames(f, ns) == ns

\* runner.rs:68-74
ExportData ==
    /\ pc = "exportData" /\ StageBudget
    /\ \E bad \in WatchFaults :
          StageDone(export_data(StageCtx(bad), ExportNames(fs, declared)),
                    "exportProject")
    /\ UNCHANGED <<keep, hist, conf, queue, locked, declared, staged, edits, sideVars, noteVars>>

\* runner.rs:77-95
ExportProject ==
    /\ pc = "exportProject" /\ StageBudget
    /\ \E bad \in WatchFaults :
          StageDone(export_project(StageCtx(bad), conf), "flush")
    /\ UNCHANGED <<keep, hist, conf, queue, locked, declared, staged, edits, sideVars, noteVars>>

\* watch.rs:57-64: with a server, run_command("reload") and the tellraw
\* confirmation are sent; r is how the race ended
Reload(r) == IF server THEN reloaded \cup {r} ELSE reloaded

\* the loop releasing the lock before it waits
FlushReleasing ==
    /\ pc = "flush"
    /\ reloaded' = Reload(res)
    /\ queue' = 0
    /\ pc' = "debounce0"
    /\ locked' = FALSE
    /\ UNCHANGED <<fsVars, hist, conf, declared, res, after, staged, edits, log, sideVars,
                   server, pending>>

\* watch.rs:56-68: not interrupted; FileWatcher::flush, file_watcher.rs:68-70
Flush ==
    /\ pc = "flush"
    /\ reloaded' = Reload(res)
    /\ queue' = 0
    /\ pc' = "debounce0"
    /\ UNCHANGED <<fsVars, hist, conf, locked, declared, res, after, staged, edits, log,
                   sideVars, server, pending>>

\* file_watcher.rs:49: wait_debounced waits for a first change
DebounceFirst ==
    /\ pc = "debounce0" /\ queue > 0
    /\ queue' = queue - 1
    /\ pc' = "debounce"
    /\ UNCHANGED <<fsVars, hist, conf, locked, declared, res, after, staged, edits, log, sideVars, noteVars>>

\* file_watcher.rs:52-55: another change arrives before the timer fires
DebounceMore ==
    /\ pc = "debounce" /\ queue > 0
    /\ queue' = queue - 1
    /\ UNCHANGED <<fsVars, hist, conf, pc, locked, declared, res, after, staged, edits, log, sideVars, noteVars>>

\* file_watcher.rs:56-64: the timer fires with no change queued
DebounceTimeout ==
    /\ pc = "debounce" /\ queue = 0
    /\ pc' = "unlock"
    /\ UNCHANGED <<fsVars, hist, conf, queue, locked, declared, res, after, staged, edits, log, sideVars, noteVars>>

\* a command that returns once the lock is released, instead of looping
UnlockLeaving ==
    /\ pc = "unlock"
    /\ locked' = FALSE
    /\ pc' = "exit"
    /\ UNCHANGED <<fsVars, hist, conf, queue, declared, res, after, staged, edits, log,
                   sideVars, noteVars>>

\* watch.rs:72-73: session.unlock()?, then the next iteration
Unlock ==
    /\ pc = "unlock"
    /\ locked' = FALSE
    /\ pc' = "load"
    /\ UNCHANGED <<fsVars, hist, conf, queue, declared, res, after, staged, edits, log, sideVars, noteVars>>

\* the phase of a watch iteration the loop is in at position p: the staging
\* up to the runner's yield, the await of the filter pipeline, the stages
\* from there to the flush, or the waits and the steps between iterations
Phase(p) ==
    IF p = "yield" THEN "staging"
    ELSE IF p = "filter" THEN "filter"
    ELSE IF p \in {"exportData", "exportProject", "flush"} THEN "export"
    ELSE "waiting"

\* file_watcher.rs:14-25: the watcher's callback sends a change signal
Emit ==
    /\ queue < MaxQueue
    /\ queue' = queue + 1
    /\ pending' = pending \cup {Phase(pc)}
    /\ UNCHANGED <<fsVars, hist, conf, pc, locked, declared, res, after, staged, edits, log,
                   sideVars, server, reloaded>>

\* the user replaces the behavior pack's entry; the watcher reports it
UserEdit ==
    /\ conf.bp /\ edits < MaxEdits
    /\ \E b \in PackTrees(BP) :
          /\ b # [q \in Under(fs, BP) |-> fs[q]]
          /\ fs' = b @@ Del(fs, Under(fs, BP))
    /\ edits' = edits + 1
    /\ queue' = IF queue < MaxQueue THEN queue + 1 ELSE queue
    /\ after' = FALSE
    /\ pending' = pending \cup {Phase(pc)}
    /\ UNCHANGED <<cache, clock, keep, hist, conf, pc, locked, declared, res, staged, log,
                   sideVars, server, reloaded>>

\* the loop itself: every step of Watch::dispatch and of the runner
LoopStep ==
    \/ Load \/ Setup \/ Yield \/ FilterDone \/ FilterFail
    \/ ExportData \/ ExportProject \/ Flush \/ DebounceFirst \/ DebounceMore
    \/ DebounceTimeout \/ Unlock

\* changes arrive at any moment of an iteration
NextWatch == LoopStep \/ Abandon \/ Emit

SpecWatch == InitWatch /\ [][NextWatch]_vars

\* the user touches or edits the sources while the loop waits for changes
EmitWaiting == pc = "debounce0" /\ Emit

EditWaiting == pc = "debounce0" /\ UserEdit

NextRunner == LoopStep \/ EmitWaiting \/ EditWaiting

SpecRunner == InitRunner /\ [][NextRunner]_vars

\* the runner's cycles with the sources left alone
NextCycles == LoopStep \/ EmitWaiting

SpecCycles == InitRunner /\ [][NextCycles]_vars

----------------------------------------------------------------------------
(* Claims about the watch loop, verified under SpecWatch *)

\* the positions at which the runner future is being polled
RunStages == {"setup", "yield", "filter", "exportData", "exportProject"}

\* the loop is inside watcher.flush() or suspended in wait_debounced
Waiting == pc \in {"debounce0", "debounce"}

\* C4 (what the code does): in watch mode the session lock acquired at the
\* top of an iteration is still held while the loop is suspended in
\* wait_debounced; it is released only after wait_debounced has returned,
\* and it is held again before the next pipeline run starts.
C4_LockHeldWhileWaiting ==
    /\ (pc = "flush" \/ Waiting) => locked
    /\ pc \in RunStages => locked
    /\ pc = "load" => ~locked

\* an uninterrupted iteration waits for the second change with the lock held
C4_WaitsLocked == pc = "debounce" /\ res = "ok" /\ locked

\* C4 (as stated): in every iteration that was not interrupted the lock is
\* not held while the loop is suspended in wait_debounced, and it is held
\* again before the next pipeline run starts.
C4_ReleasedBeforeWaiting ==
    /\ (Waiting /\ res # "int") => ~locked
    /\ pc \in RunStages => locked

\* a step in which the runner returns an error
RunnerErr == pc \in RunStages /\ res' = "err"

\* C10: when the runner returns an error in any stage of a watch cycle the
\* loop does not terminate: it goes on to flush, waits for the debounced
\* change, unlocks, and starts another cycle with Config::load and setup.
C10_WatchSurvivesFailure ==
    [][/\ RunnerErr => pc' = "flush"
       /\ (res = "err" /\ pc = "flush") => pc' \in {"flush", "debounce0"}
       /\ (res = "err" /\ pc = "debounce0") => pc' \in {"debounce0", "debounce"}
       /\ (res = "err" /\ pc = "debounce") => pc' \in {"debounce", "unlock"}
       /\ (res = "err" /\ pc = "unlock") => pc' \in {"unlock", "load"}
       /\ (res = "err" /\ pc = "load") => pc' \in {"load", "setup"}
       /\ pc' # "exit"]_vars

\* a cycle has started after the cycle before it failed in a sync_dir call
C10_NextCycleStarted == pc = "setup" /\ after /\ locked

----------------------------------------------------------------------------
(* Claims about the runner, verified under SpecCycles *)

\* the temp entry of a pack the project has, after setup
PackStaged(f, c, has, src, temp, target) ==
    has => IF Direct(c)
           THEN /\ LStat(f, temp).kind = "link"
                /\ f[temp].to = target
                /\ TreeEq(f, src, target)
           ELSE /\ LStat(f, temp).kind = "dir"
                /\ TreeEq(f, src, temp)

\* C7: after the setup stage succeeds, for each pack the project has: with
\* export None or compat the temp entry is a real directory content-equal to
\* the source pack, whatever it was before; otherwise the temp entry is a
\* link to the resolved target and the target is content-equal to the pack.
C7_StagingMode ==
    pc = "yield" =>
        /\ PackStaged(fs, conf, conf.bp, BP, TEMP_BP, TARGET_BP)
        /\ PackStaged(fs, conf, conf.rp, RP, TEMP_RP, TARGET_RP)

\* the export-project stage ran
ExportStep == pc = "exportProject" /\ pc' # "exportProject"

\* the synchronisations back to the targets, for the packs the project has
SyncBack(c) ==
    (IF c.bp THEN {<<TEMP_BP, TARGET_BP>>} ELSE {})
    \cup (IF c.rp THEN {<<TEMP_RP, TARGET_RP>>} ELSE {})

\* C8: the export-project stage synchronizes temp bp/rp back to the export
\* targets if and only if compat is true and the export strategy is not
\* None; otherwise the stage performs no filesystem operation; and with the
\* strategy None no stage ever creates the export target directories.
C8_ExportProject ==
    [][/\ ExportStep =>
            /\ log' \subseteq SyncBack(conf)
            /\ (conf.compat /\ ~conf.none /\ res' = "ok") => log' = SyncBack(conf)
            /\ ~(conf.compat /\ ~conf.none) => (log' = {} /\ fs' = fs)
       /\ conf.none => (TARGET_BP \notin DOMAIN fs' /\ TARGET_RP \notin DOMAIN fs')]_vars

\* a compat cycle of a project with both packs exported both of them
C8_BothExported ==
    /\ pc = "flush" /\ res = "ok"
    /\ conf.compat /\ ~conf.none /\ conf.bp /\ conf.rp
    /\ log = {<<TEMP_BP, TARGET_BP>>, <<TEMP_RP, TARGET_RP>>}
    /\ TreeEq(fs, TEMP_RP, TARGET_RP)

\* C9: when a watch cycle aborted because a sync_dir call failed part-way,
\* the next cycle of the same process (no fault, sources unchanged) that
\* completes successfully leaves every staged tree and every exported tree
\* content-equal to its source.
C9_Reconciliation ==
    (pc = "flush" /\ res = "ok" /\ after) =>
        (staged /\ ExportedEq(fs, conf, declared))

----------------------------------------------------------------------------
(* SpecDebounce: one call of wait_debounced, file_watcher.rs:48-66, in time *)

\* a run of the watch loop is inside its wait, the lock held, the channel
\* flushed
InitDebounce ==
    /\ fs = EmptyFn
    /\ cache = EmptyFn
    /\ clock = 0
    /\ keep = FALSE
    /\ hist = <<>>
    /\ conf = NoConf
    /\ pc = "debounce0"
    /\ queue = 0
    /\ locked = TRUE
    /\ declared = {}
    /\ res = "ok"
    /\ after = FALSE
    /\ staged = FALSE
    /\ edits = 0
    /\ log = {}
    /\ timer = 0
    /\ sigs = <<>>
    /\ procs = <<>>
    /\ holder = 0
    /\ NoteIdle

restVars == <<fs, cache, keep, hist, conf, locked, declared, res, after, staged,
              edits, log, procs, holder, noteVars>>

\* time passes
Tick ==
    /\ clock < MaxTime
    /\ clock' = clock + 1
    /\ UNCHANGED <<pc, queue, timer, sigs, restVars>>

\* file_watcher.rs:14-25: the callback sends a signal while the call waits
Signal ==
    /\ pc \in {"debounce0", "debounce"}
    /\ queue < MaxQueue /\ Len(sigs) < MaxSignals
    /\ queue' = queue + 1
    /\ sigs' = Append(sigs, clock)
    /\ UNCHANGED <<pc, clock, timer, restVars>>

\* the deadline left alone when a change is received
TimerKept(old, now) == old

\* file_watcher.rs:50-57: every turn of the loop builds a new
\* Timer::after(timeout)
TimerAfterChange(old, now) == now + Window

\* file_watcher.rs:49: the first change is received
TimedFirst ==
    /\ pc = "debounce0" /\ queue > 0
    /\ queue' = queue - 1
    /\ pc' = "debounce"
    /\ timer' = TimerAfterChange(timer, clock)
    /\ UNCHANGED <<clock, sigs, restVars>>

\* file_watcher.rs:52-55: wait_changes is polled first and is ready
TimedMore ==
    /\ pc = "debounce" /\ queue > 0
    /\ queue' = queue - 1
    /\ timer' = TimerAfterChange(timer, clock)
    /\ UNCHANGED <<pc, clock, sigs, restVars>>

\* file_watcher.rs:56-64: no change is queued and the timer has fired
TimedOut ==
    /\ pc = "debounce" /\ queue = 0 /\ clock >= timer
    /\ pc' = "unlock"
    /\ UNCHANGED <<queue, clock, timer, sigs, restVars>>

NextDebounce == Tick \/ Signal \/ TimedFirst \/ TimedMore \/ TimedOut

SpecDebounce == InitDebounce /\ [][NextDebounce]_vars

\* the time of the last signal sent
LastSignal == sigs[Len(sigs)]

\* C6: wait_debounced does not return before the time of the last signal
\* plus the quiet window, and every signal received before the timer fires
\* starts a fresh full quiet window.
C6_Debounce ==
    /\ [](pc = "unlock" => clock >= LastSignal + Window)
    /\ [][(queue' < queue) => timer' = clock + Window]_vars

\* the call returned exactly one window after the last of several signals
\* that were less than a window apart
C6_ReturnedAfterBurst ==
    /\ pc = "unlock"
    /\ Len(sigs) >= 2
    /\ \A i \in 2..Len(sigs) : sigs[i] - sigs[i - 1] < Window
    /\ sigs[Len(sigs)] > sigs[1]
    /\ clock = LastSignal + Window

----------------------------------------------------------------------------
(* SpecLock: two command invocations, apply or watch, on one project root *)

Procs == {1, 2}

\* Session::lock: succeeds at once when the lock is free, fails at once
\* with "already locked" when another invocation holds it
SessionLock(h, p) ==
    IF h = 0 THEN [ok |-> TRUE, holder |-> p] ELSE [ok |-> FALSE, holder |-> h]

\* Session::unlock
SessionUnlock(h, p) == IF h = p THEN 0 ELSE h

\* the Session value goes out of scope without unlock: released or left
SessionDrop(h, p) == {h, SessionUnlock(h, p)}

\* fs.rs:44-59
empty_dir(st, p) == with_context(st, create_dir_all(rimraf(st, p), p))

\* apply.rs:28-33: `if let Some(pack) = .. { copy_dir(pack, ..)?; }`
copy_pack(st, has, from, to) == IF has THEN copy_dir(st, from, to) ELSE st

\* apply.rs:27-34
apply_stage(st, c) ==
    copy_dir(copy_pack(copy_pack(empty_dir(st, TEMP), c.bp, BP, TEMP_BP),
                       c.rp, RP, TEMP_RP),
             DATA, TEMP_DATA)

\* apply.rs:40-48
apply_back(st, c) ==
    sync_dir(sync_pack(sync_pack(st, c.bp, TEMP_BP, BP), c.rp, TEMP_RP, RP),
             TEMP_DATA, DATA)

InitLock ==
    /\ conf \in {c \in Confs : c.bp /\ ~c.rp /\ ~c.clean /\ ~c.none}
    /\ fs = Project(conf, (BP :> DirNode(SrcT)) @@ (<<"bp", "p">> :> FileNode(MaxLen, SrcT)),
                    EmptyFn)
    /\ keep \in BOOLEAN
    /\ cache = EmptyFn
    /\ clock = MaxT + 1
    /\ hist = <<>>
    /\ pc = "idle"
    /\ queue = 0
    /\ locked = FALSE
    /\ declared = {}
    /\ res = "none"
    /\ after = FALSE
    /\ staged = FALSE
    /\ edits = 0
    /\ log = {}
    /\ timer = 0
    /\ sigs = <<>>
    /\ procs \in [Procs -> {[kind |-> k, pc |-> "start", cache |-> EmptyFn,
                            declared |-> {}] : k \in {"apply", "watch"}}]
    /\ holder = 0
    /\ NoteIdle

lockRest == <<cache, keep, hist, conf, pc, queue, locked, declared, res, after,
              staged, edits, log, timer, sigs, noteVars>>

LockFaults == {{}, {<<"tmp", "bp", "p">>}}

ProcCtx(p, bad) == Ctx(fs, procs[p].cache, clock, keep, bad, {}, {})

\* the effects of a stage of invocation p that returned r
ProcDone(p, r, next, onerr) ==
    /\ r.valid
    /\ fs' = r.fs
    /\ clock' = clock + 1
    /\ procs' = [procs EXCEPT ![p].cache = r.cache,
                              ![p].pc = IF r.ok THEN next ELSE onerr]

\* apply: a stage that returns an error through `?` drops the session
ApplyDone(p, r, next) ==
    /\ ProcDone(p, r, next, "failed")
    /\ holder' \in (IF r.ok THEN {holder} ELSE SessionDrop(holder, p))

\* watch: the filter run returned r and declared the data folders ns
FilterReturned(p, r, ns) ==
    /\ r.valid
    /\ fs' = r.fs
    /\ clock' = clock + 1
    /\ procs' = [procs EXCEPT ![p].cache = r.cache, ![p].pc = "export",
                              ![p].declared = ns]

At(p, kind, at) == procs[p].kind = kind /\ procs[p].pc = at

\* the invocation goes on whatever Session::lock returned
LockUnchecked(p) ==
    /\ procs[p].pc = "start"
    /\ holder' = SessionLock(holder, p).holder
    /\ procs' = [procs EXCEPT ![p].pc = IF procs[p].kind = "apply" THEN "stage" ELSE "setup"]
    /\ UNCHANGED <<fs, clock, lockRest>>

\* apply.rs:17 and watch.rs:39: Session::lock()?
Lock(p) ==
    /\ procs[p].pc = "start"
    /\ LET r == SessionLock(holder, p)
       IN /\ holder' = r.holder
          /\ procs' = [procs EXCEPT ![p].pc =
                          IF ~r.ok THEN "failed"
                          ELSE IF procs[p].kind = "apply" THEN "stage" ELSE "setup"]
    /\ UNCHANGED <<fs, clock, lockRest>>

\* apply.rs:27-34; an error returns through `?` and drops the session
ApplyStage(p) ==
    /\ At(p, "apply", "stage") /\ StageBudget
    /\ \E bad \in LockFaults :
          ApplyDone(p, apply_stage(ProcCtx(p, bad), conf), "run")
    /\ UNCHANGED lockRest

\* apply.rs:37
ApplyRun(p) ==
    /\ At(p, "apply", "run") /\ StageBudget
    /\ \E o \in FilterOutcomes :
          ProcDone(p, FilterRun(ProcCtx(p, {}), conf, o), "back", "failed")
    /\ UNCHANGED <<holder, lockRest>>

\* apply.rs:40-48
ApplyBack(p) ==
    /\ At(p, "apply", "back") /\ StageBudget
    /\ ApplyDone(p, apply_back(ProcCtx(p, {}), conf), "unlock")
    /\ UNCHANGED lockRest

\* runner.rs:21-62 run by the watch loop; an error leads to the wait
WatchSetup(p) ==
    /\ At(p, "watch", "setup") /\ StageBudget
    /\ \E bad \in LockFaults :
          ProcDone(p, setup_temp(ProcCtx(p, bad), conf), "filter", "wait")
    /\ UNCHANGED <<holder, lockRest>>

\* runner.rs:67
WatchFilter(p) ==
    /\ At(p, "watch", "filter") /\ StageBudget
    /\ \E o \in FilterOutcomes :
          FilterReturned(p, FilterRun(ProcCtx(p, {}), conf, o), o.declared)
    /\ UNCHANGED <<holder, lockRest>>

\* watch.rs:49-52: a change wins the race, the runner future is dropped
WatchInterrupt(p) ==
    /\ At(p, "watch", "filter")
    /\ procs' = [procs EXCEPT ![p].pc = "unlock"]
    /\ UNCHANGED <<fs, clock, holder, lockRest>>

\* runner.rs:68-92
WatchExport(p) ==
    /\ At(p, "watch", "export") /\ StageBudget
    /\ ProcDone(p, export_project(export_data(ProcCtx(p, {}), procs[p].declared), conf),
                "wait", "wait")
    /\ UNCHANGED <<holder, lockRest>>

\* watch.rs:68-69: flush, then wait_debounced returns
WatchWait(p) ==
    /\ At(p, "watch", "wait")
    /\ procs' = [procs EXCEPT ![p].pc = "unlock"]
    /\ UNCHANGED <<fs, clock, holder, lockRest>>

\* apply.rs:51 and watch.rs:73: session.unlock()
ProcUnlock(p) ==
    /\ procs[p].pc = "unlock"
    /\ holder' = SessionUnlock(holder, p)
    /\ procs' = [procs EXCEPT ![p].pc = IF procs[p].kind = "apply" THEN "done" ELSE "start"]
    /\ UNCHANGED <<fs, clock, lockRest>>

NextLock ==
    \E p \in Procs :
        \/ Lock(p) \/ ApplyStage(p) \/ ApplyRun(p) \/ ApplyBack(p)
        \/ WatchSetup(p) \/ WatchFilter(p) \/ WatchInterrupt(p)
        \/ WatchExport(p) \/ WatchWait(p) \/ ProcUnlock(p)

SpecLock == InitLock /\ [][NextLock]_vars

\* invocation p is at a staging or export operation
Operating(p) == procs[p].pc \in {"stage", "back", "setup", "export"}

\* C5: in apply and in watch every staging or export filesystem operation
\* runs only while the invoking process holds the session lock, so two
\* invocations on one project root are never both inside such an operation.
C5_LockCoversMutation ==
    /\ \A p \in Procs : Operating(p) => holder = p
    /\ ~(Operating(1) /\ Operating(2))

\* invocation 1 writes the sources back while invocation 2 was refused
C5_OneWorksOtherRefused ==
    /\ procs[1].pc = "back" /\ holder = 1
    /\ procs[2].pc = "failed"

----------------------------------------------------------------------------
(* Claims about the race of a watch iteration, verified under SpecWatch *)

\* C11: with the reload channel enabled, the reload command and its
\* confirmation message are sent only after a cycle whose runner completed
\* successfully and was not interrupted; never after a cycle whose runner
\* returned an error, never after an abandoned one.
C11_ReloadOnlyAfterSuccess == reloaded \subseteq {"ok"}

\* the step in which a change signal wins the race
Interrupted == res # "int" /\ res' = "int"

\* C12: when a change signal wins the race, that one signal is consumed, the
\* run is abandoned with its filesystem effects left as they are, none of its
\* remaining stages runs in the iteration, and the loop goes to the unlock
\* and the next iteration without the flush or the timed wait; when the run
\* completes first, the race has consumed no signal.
C12_RaceAndAbandonment ==
    [][/\ Interrupted => /\ queue > 0 /\ queue' = queue - 1
                         /\ pc' = "unlock"
                         /\ fs' = fs
       /\ res = "int" => /\ pc \in {"unlock", "load"}
                         /\ pc' \in {"unlock", "load", "setup"}
                         /\ fs' = fs
       /\ (pc \in RunStages /\ pc' = "flush") => queue' = queue]_vars

\* a run was abandoned after its staging, whose temp tree is still there
C12_AbandonedAfterStaging ==
    /\ res = "int" /\ pc = "unlock"
    /\ Stat(fs, TEMP_DATA).kind = "dir"

----------------------------------------------------------------------------
(* SpecOps: one call of rimraf, of copy_dir or of sync_dir, with the       *)
(* faults the environment injects into it                                   *)

\* what rimraf is called on: the tree, an entry of it, a path never present
RimrafPaths == {DstRoot, DstRoot \o <<"p">>, DstRoot \o <<"q">>, DstRoot \o <<"z">>}

\* no removal fails, or the removal of one leaf fails in one of the ways
DenyChoices == {EmptyFn} \cup {t :> k : t \in DstPaths, k \in DenyKinds}

WithDeny(st, d) == [st EXCEPT !.deny = d]

\* a directory at B whose entry q is a link to the directory A
LinkedTrees ==
    {(DstRoot :> DirNode(SrcT)) @@ Graft(DstRoot, tp @@ (<<"q">> :> LinkNode(SrcRoot))) :
        tp \in TreesP(0..MaxLen, {SrcT})}

\* the destination before the call; neither operation reads a modified time
OpsTrees ==
    {EmptyFn} \cup {(DstRoot :> FileNode(0, SrcT))}
    \cup Trees(DstRoot, 0..MaxLen, {SrcT})
    \cup LinkedTrees

InitOps ==
    /\ \E a \in SrcTrees, b \in OpsTrees : fs = a @@ b
    /\ cache = EmptyFn
    /\ clock = MaxT + 1
    /\ keep \in BOOLEAN
    /\ hist = <<>>
    /\ WatchIdle
    /\ SideIdle
    /\ NoteIdle

\* what the call op(path), which returned r, leaves behind
OpReturned(r, op, path) ==
    /\ r.valid
    /\ fs' = r.fs
    /\ cache' = r.cache
    /\ hist' = Append(hist, [op |-> op, path |-> path, ok |-> r.ok, err |-> r.err,
                             before |-> fs,
                             deny |-> r.deny, tries |-> r.tries,
                             cleared |-> r.cleared, bad |-> r.bad, skip |-> r.skip])

\* fs.rs:120-142
RimrafCall ==
    /\ hist = <<>>
    /\ \E p \in RimrafPaths, d \in DenyChoices, skip \in SkipChoices :
          OpReturned(rimraf(WithDeny(Ctx(fs, cache, clock, keep, {}, skip, {}), d), p),
                     "rimraf", p)
    /\ clock' = clock + 1
    /\ UNCHANGED <<keep, watchVars, sideVars, noteVars>>

\* fs.rs:30-42
CopyDirCall ==
    /\ hist = <<>>
    /\ \E bad \in FaultChoices, skip \in SkipChoices :
          OpReturned(copy_dir(Ctx(fs, cache, clock, keep, bad, skip, {}), SrcRoot, DstRoot),
                     "copy_dir", DstRoot)
    /\ clock' = clock + 1
    /\ UNCHANGED <<keep, watchVars, sideVars, noteVars>>

\* fs.rs:231-327, entered with an empty METADATA_CACHE
SyncCall ==
    /\ hist = <<>>
    /\ \E bad \in FaultChoices, skip \in SkipChoices, skipc \in SkipChoices :
          OpReturned(sync_dir(Ctx(fs, cache, clock, keep, bad, skip, skipc),
                              SrcRoot, DstRoot),
                     "sync_dir", DstRoot)
    /\ clock' = clock + 1
    /\ UNCHANGED <<keep, watchVars, sideVars, noteVars>>

NextOps == RimrafCall \/ CopyDirCall \/ SyncCall

SpecOps == InitOps /\ [][NextOps]_vars

----------------------------------------------------------------------------
(* Claims about rimraf, copy_dir and sync_dir, verified under SpecOps *)

\* the call that returned last
LastOp == hist[Len(hist)]

\* the call that returned was op
Did(op) == hist # <<>> /\ LastOp.op = op

\* how the environment failed the removal of p in the last call
DeniedIn(h, p) == IF p \in DOMAIN h.deny THEN h.deny[p] ELSE "none"

\* the leaf p, on which the last call tried a removal, was handled as
\* fs.rs:83-101 says
LeafHandled(h, p) ==
    /\ DeniedIn(h, p) = "none" => h.tries[p] = 1 /\ p \notin DOMAIN fs
    /\ DeniedIn(h, p) = "io" =>
          h.tries[p] = 1 /\ p \notin h.cleared /\ ~h.ok /\ p \in DOMAIN fs
    /\ DeniedIn(h, p) = "perm" =>
          h.tries[p] = 2 /\ p \in h.cleared /\ p \notin DOMAIN fs
    /\ DeniedIn(h, p) = "again" =>
          h.tries[p] = 2 /\ p \in h.cleared /\ ~h.ok /\ p \in DOMAIN fs
    /\ DeniedIn(h, p) = "chmod" =>
          h.tries[p] = 1 /\ p \notin h.cleared /\ ~h.ok /\ p \in DOMAIN fs

\* C13: a leaf whose removal fails with permission-denied has its read-only
\* attribute cleared and its removal retried exactly once; rimraf succeeds
\* when the retry does and fails when it does not; any other first failure
\* fails rimraf without a retry; rimraf of a path that does not exist
\* succeeds and leaves the filesystem as it was.
C13_PermissionRecovery ==
    Did("rimraf") =>
        /\ \A p \in DOMAIN LastOp.tries : LeafHandled(LastOp, p)
        /\ LStat(LastOp.before, LastOp.path).kind = "none" =>
              LastOp.ok /\ fs = LastOp.before /\ LastOp.tries = EmptyFn
        /\ LStat(LastOp.before, LastOp.path).kind = "file" =>
              /\ LastOp.path \in DOMAIN LastOp.tries
              /\ LastOp.ok <=> DeniedIn(LastOp, LastOp.path) \in {"none", "perm"}

\* rimraf of a read-only file succeeded at the second removal
C13_RemovedAtRetry ==
    /\ Did("rimraf") /\ LastOp.ok
    /\ LStat(LastOp.before, LastOp.path).kind = "file"
    /\ DeniedIn(LastOp, LastOp.path) = "perm"
    /\ LastOp.tries[LastOp.path] = 2
    /\ LastOp.path \notin DOMAIN fs

\* the source path that is copied to the destination path t
SourceOf(t) == SrcRoot \o SubSeq(t, Len(DstRoot) + 1, Len(t))

\* the closure of the source entry rel ran in the call h, and nothing
\* stood in the way of its copy: no injected fault, and every directory on
\* its destination path absent or a directory before the call
Copyable(h, rel) ==
    /\ IsFileAt(h.before, SrcRoot \o rel)
    /\ (DstRoot \o rel) \notin h.bad
    /\ \A i \in 0..Len(rel) :
          /\ SubSeq(DstRoot \o rel, 1, Len(DstRoot) + i) \notin h.skip
          /\ Stat(h.before, SubSeq(DstRoot \o rel, 1, Len(DstRoot) + i)).kind
                \in (IF i = Len(rel) THEN {"none", "file"} ELSE {"none", "dir"})

\* C14: when the copy of an entry fails, copy_dir returns an error; what the
\* other entries' copies wrote to the destination stays there, and nothing
\* that was in the destination is removed.
C14_FailFastNoRollback ==
    Did("copy_dir") =>
        /\ (\E t \in LastOp.bad : IsFileAt(LastOp.before, SourceOf(t))) => ~LastOp.ok
        /\ \A q \in DOMAIN LastOp.before :
              q \in DOMAIN fs /\ fs[q].kind = LastOp.before[q].kind
        /\ \A rel \in RelPaths :
              Copyable(LastOp, rel) =>
                  /\ IsFileAt(fs, DstRoot \o rel)
                  /\ fs[DstRoot \o rel].len = fs[SrcRoot \o rel].len

\* copy_dir failed on one entry, and the copy of its sibling is in the
\* destination, which did not exist before
C14_PartialTreeLeft ==
    /\ Did("copy_dir") /\ ~LastOp.ok
    /\ DstRoot \notin DOMAIN LastOp.before
    /\ LastOp.bad = {DstRoot \o <<"p">>}
    /\ IsFileAt(LastOp.before, SrcRoot \o <<"p">>)
    /\ IsFileAt(fs, DstRoot \o <<"q">>)
    /\ (DstRoot \o <<"p">>) \notin DOMAIN fs

----------------------------------------------------------------------------
(* Claims about the data export, verified under SpecCycles *)

\* the step of the export-data stage
DataStep == pc = "exportData" /\ pc' # "exportData"

\* the declared names whose folder is a directory under the temp data root
Exportable(f, ns) == {n \in ns : Stat(f, Append(TEMP_DATA, n)).kind = "dir"}

\* q lies in the persistent data folder of one of the names ns
InDataOf(ns, q) == \E n \in ns : IsPrefix(Append(DATA, n), q)

\* C15: after the filter run, a sub-folder of the temp data root is
\* synchronized into the persistent data directory only if its name was
\* returned by the filter pipeline and it is a directory under the temp data
\* root; a folder of the temp data root with an undeclared name changes
\* nothing in the persistent data directory.
C15_DataAllowList ==
    [][DataStep =>
          /\ log' \subseteq {<<Append(TEMP_DATA, n), Append(DATA, n)>> :
                                n \in Exportable(fs, declared)}
          /\ \A q \in (DOMAIN fs \cup DOMAIN fs') \ {DATA} :
                (IsPrefix(DATA, q) /\ ~InDataOf(Exportable(fs, declared), q)) =>
                    /\ q \in DOMAIN fs /\ q \in DOMAIN fs'
                    /\ fs'[q] = fs[q]]_vars

\* the stage exported the declared folder n, left out the undeclared folder
\* u of the temp data root and passed over the declared name m, which has
\* no folder
C15_UndeclaredLeftOut ==
    /\ pc = "exportProject"
    /\ declared = {"n", "m"}
    /\ Stat(fs, Append(TEMP_DATA, "u")).kind = "dir"
    /\ Stat(fs, Append(TEMP_DATA, "m")).kind = "none"
    /\ Append(DATA, "u") \notin DOMAIN fs
    /\ IsFileAt(fs, DATA \o <<"n", "x">>)
    /\ <<Append(TEMP_DATA, "n"), Append(DATA, "n")>> \in log

----------------------------------------------------------------------------
(* Claims about single sync_dir calls, verified under SpecOps *)

\* C16: every error returned by copy_dir, rimraf or sync_dir carries a
\* context naming the operation and its path(s), whichever internal step
\* failed; no call returns a bare low-level I/O error.
C16_ErrorsCarryContext ==
    (hist # <<>> /\ ~LastOp.ok) => LastOp.err = "ctx"

\* the last call was sync_dir(A, B) on an existing directory B, and the
\* environment failed none of its operations
SyncedClean ==
    /\ Did("sync_dir") /\ LastOp.bad = {} /\ LastOp.skip = {}
    /\ LStat(LastOp.before, DstRoot).kind = "dir"

\* C17: when source holds a directory d, empty or not, and the existing
\* target directory holds a regular file named d, sync_dir(source, target)
\* returns success and target/d is then a directory with the contents of
\* source/d.
C17_DirReplacesStaleFile ==
    (/\ SyncedClean
     /\ LStat(LastOp.before, SrcRoot \o <<"p">>).kind = "dir"
     /\ LStat(LastOp.before, DstRoot \o <<"p">>).kind = "file")
    => /\ LastOp.ok
       /\ TreeEq(fs, SrcRoot \o <<"p">>, DstRoot \o <<"p">>)

\* C18: when source holds a regular file f and the existing target
\* directory holds a directory named f, sync_dir(source, target) removes
\* target/f recursively, copies the file and returns success, the sync pass
\* and the cleanup pass both completing; target/f is then a regular file
\* equal to source/f.
C18_FileReplacesStaleDir ==
    (/\ SyncedClean
     /\ LStat(LastOp.before, SrcRoot \o <<"p">>).kind = "file"
     /\ LStat(LastOp.before, DstRoot \o <<"p">>).kind = "dir")
    => /\ LastOp.ok
       /\ IsFileAt(fs, DstRoot \o <<"p">>)
       /\ fs[DstRoot \o <<"p">>].len = fs[SrcRoot \o <<"p">>].len

----------------------------------------------------------------------------
(* Claims about change signals and the runner's suspension points,         *)
(* verified under SpecWatch                                                 *)

\* the loop is blocked in wait_debounced until a further change arrives
AwaitsChange == pc = "debounce0" /\ queue = 0

\* the phases from which a queued signal can reach watcher.flush: the
\* runner completes without wait_changes taking the signal
PastTheRace == {"filter", "export"}

\* C19 as stated: every change signal emitted at any point of a watch
\* iteration is followed by a cycle whose staging starts after it; so the
\* loop never blocks for a further change while a signal has had no staging
\* after it.
C19_NoLostChange == AwaitsChange => pending = {}

\* C19 as the code has it: a signal emitted during staging or while the
\* loop waits is always followed by a staging; the signals the loop leaves
\* without one are those emitted once the runner is past its yield (during
\* the filter run it then completes, during the export stages, or after a
\* failed run), which watcher.flush() discards.
C19_LostOnlyPastTheRace == AwaitsChange => pending \subseteq PastTheRace

\* a signal emitted during the export of the data was discarded and the
\* loop waits for another change
C19_ExportSignalDiscarded == AwaitsChange /\ pending = {"export"} /\ res = "ok"

\* the positions at which the runner executes filesystem calls
Blocking == {"setup", "exportData", "exportProject"}

\* C20: a run that loses the race is abandoned only at the yield after
\* staging or while it awaits the filter pipeline, and the abandonment itself
\* touches neither the filesystem nor the cache; a stage made of sync_dir,
\* rimraf and symlink calls, once started, runs to its return (success or
\* error) whatever signals are queued, so its calls come one after the
\* other and none is cut short.
C20_AbandonedOnlyAtAwaits ==
    [][/\ Interrupted => /\ pc \in {"yield", "filter"}
                         /\ fs' = fs /\ cache' = cache /\ log' = log
       /\ (pc \in Blocking /\ pc' # pc) =>
             /\ res' # "int"
             /\ pc' \in {"yield", "exportProject", "flush"}]_vars

\* a signal arrived during the export stages, which ran their sync_dir
\* calls to the end of the run all the same
C20_ExportRanThroughSignal ==
    /\ pc = "flush" /\ res = "ok"
    /\ "export" \in pending /\ queue > 0
    /\ log # {}

----------------------------------------------------------------------------
(* SpecLive: the watch loop over any number of iterations.  A stage of the *)
(* runner is taken by its outcome alone, Ok or Err: what it writes (see    *)
(* SpecWatch) has no part in where the loop goes next, and without the     *)
(* stamps of the clock the iterations are not bounded.                      *)

\* the positions at which a stage of the runner is running or awaited
Stages == Blocking \cup Awaiting

\* runner.rs:63-95: where a stage that returned Ok hands over
NextStage(p) ==
    IF p = "setup" THEN "yield"
    ELSE IF p = "filter" THEN "exportData"
    ELSE IF p = "exportData" THEN "exportProject"
    ELSE "flush"

\* runner.rs:21-95: a stage returns Ok or Err; the filter pipeline is one
\* of them, so it terminates
StageEnds ==
    /\ pc \in Stages
    /\ \E ok \in BOOLEAN :
          /\ pc' = IF ok THEN NextStage(pc) ELSE OnRunnerError
          /\ res' = IF ok THEN (IF NextStage(pc) = "flush" THEN "ok" ELSE res)
                    ELSE "err"
    /\ pending' = IF pc = "setup" THEN {} ELSE pending
    /\ UNCHANGED <<fsVars, hist, conf, queue, locked, declared, after, staged, edits, log,
                   sideVars, server, reloaded>>

\* the steps of the task that smol::block_on runs (watch.rs:35-75)
LiveStep ==
    \/ Load \/ StageEnds \/ Yield \/ Abandon \/ Flush
    \/ DebounceFirst \/ DebounceMore \/ DebounceTimeout \/ Unlock

NextLive == LiveStep \/ Emit

\* the executor polls the task whenever it can go on: a blocking stage
\* returns, a queued signal wakes wait_changes, the armed Timer fires
SpecLive == InitWatch /\ [][NextLive]_vars /\ WF_vars(LiveStep)

----------------------------------------------------------------------------
(* Claims about the liveness of the watch loop, verified under SpecLive *)

\* a step in which the watcher puts a signal into the channel
Emitted == queue' > queue

\* the loop is in wait_debounced after a run that was not interrupted, its
\* channel empty
QuietWait == AwaitsChange /\ res \in {"ok", "err"}

----------------------------------------------------------------------------
(* rimraf and links, fs.rs:82-143, runner.rs:29-51 *)

\* the links of tree f at or under p
LinksUnder(f, p) == {l \in Under(f, p) : f[l].kind = "link"}

\* what a link of the removed tree designates, and everything else outside
\* the removed tree, is as it was; only the modified time of the directory
\* holding p may differ
OutsideKept(h) ==
    /\ DOMAIN fs \subseteq DOMAIN h.before
    /\ \A q \in DOMAIN h.before \ Under(h.before, h.path) :
          /\ q \in DOMAIN fs
          /\ IF q = Parent(h.path) THEN fs[q].kind = h.before[q].kind
             ELSE fs[q] = h.before[q]
    /\ \A l \in LinksUnder(h.before, h.path) :
          \A q \in Under(h.before, h.before[l].to) :
             q \in DOMAIN fs /\ fs[q] = h.before[q]

\* C22: rimraf does not follow links: rimraf(p) removes only p and entries
\* under p; a link to a directory, p itself or an entry under p, is removed
\* as a leaf by one removal of the link (two after a permission-denied
\* failure), and the directory it points to and its content are unchanged.
C22_RimrafDoesNotFollowLinks ==
    Did("rimraf") =>
        /\ OutsideKept(LastOp)
        /\ LastOp.ok => Under(fs, LastOp.path) = {}
        /\ \A l \in LinksUnder(LastOp.before, LastOp.path) :
              /\ l \in DOMAIN LastOp.tries => LeafHandled(LastOp, l)
              /\ l \notin DOMAIN fs => l \in DOMAIN LastOp.tries

\* rimraf(B) has removed B, whose entry q was a link to the directory A,
\* and A still holds its directory p with the file x
C22_LinkRemovedTargetKept ==
    /\ Did("rimraf") /\ LastOp.ok /\ LastOp.path = DstRoot
    /\ LinksUnder(LastOp.before, DstRoot) = {DstRoot \o <<"q">>}
    /\ DstRoot \notin DOMAIN fs
    /\ LStat(fs, SrcRoot \o <<"p", "x">>).kind = "file"

\* runner.rs:29-51: a setup without --clean that finds temp/BP linked to the
\* export target keeps every entry of the target when it stages private
\* copies, and every file the pack source still has when it stages to the
\* target
TeardownKeepsTarget ==
    [][(pc = "setup" /\ pc' # "setup" /\ ~conf.clean
        /\ LStat(fs, TEMP_BP).kind = "link")
       => \A q \in Under(fs, fs[TEMP_BP].to) :
             IF Direct(conf)
             THEN (fs[q].kind = "file"
                   /\ LStat(fs, BP \o SubSeq(q, Len(fs[TEMP_BP].to) + 1, Len(q))).kind = "file")
                  => LStat(fs', q).kind = "file"
             ELSE q \in DOMAIN fs' /\ fs'[q] = fs[q]]_vars

====
